---- MODULE Spec2Model ----
(***************************************************************************)
(* Ames Housing price explorer (src/src/main.py).                          *)
(*                                                                         *)
(* The module-level code loads the CSV into df_house; main(page) fits a    *)
(* RandomForestRegressor on five columns and builds the prediction form;   *)
(* on_predict_click parses the form, calls model.predict and writes the    *)
(* result text and the importance breakdown.                               *)
(*                                                                         *)
(* Numbers that Python holds as floats are kept exactly, as decimal        *)
(* fractions [num, den].  Texts are sequences of one-character strings.    *)
(* Importances are kept in thousandths.                                    *)
(***************************************************************************)
EXTENDS Integers, Sequences, FiniteSets, TLC

VARIABLES
  fs,        \* the file system: which of the two candidate paths exist
  csv,       \* the rows held by the CSV asset
  pc,        \* module-level code: "boot", "ready" (df_house bound), "fatal"
  df_house,  \* the global data frame: [path, rows], or NoFrame before the load
  reads,     \* number of pd.read_csv calls made so far
  rf42,      \* what RandomForestRegressor(100, random_state=42).fit yields on
             \* the complete rows of csv (a function of data and seed)
  fits,      \* number of model.fit calls made so far
  page,      \* per session: the locals and widgets of one call of main(page)
  det        \* the deterministic weighted-sum estimator's request/response

vars == <<fs, csv, pc, df_house, reads, rf42, fits, page, det>>

----------------------------------------------------------------------------
(* Bounds of the model *)

\* sessions (calls of main by the UI runtime) in the multi-session specification
MaxSessions == 2
\* rows in the CSV asset
MaxRows == 2
\* largest number of 100-sq-ft / year / unit steps a feature is raised by
MaxStep == 2

----------------------------------------------------------------------------
(* Texts and numbers *)

Digits == {"0", "1", "2", "3", "4", "5", "6", "7", "8", "9"}

DigitVal(c) ==
  CASE c = "0" -> 0 [] c = "1" -> 1 [] c = "2" -> 2 [] c = "3" -> 3
    [] c = "4" -> 4 [] c = "5" -> 5 [] c = "6" -> 6 [] c = "7" -> 7
    [] c = "8" -> 8 [] c = "9" -> 9

Num(n, d) == [num |-> n, den |-> d]

RECURSIVE Pow10(_)
Pow10(k) == IF k = 0 THEN 1 ELSE 10 * Pow10(k - 1)

RECURSIVE DigitsValue(_)
DigitsValue(s) ==
  IF s = <<>> THEN 0
  ELSE 10 * DigitsValue(SubSeq(s, 1, Len(s) - 1)) + DigitVal(s[Len(s)])

RECURSIVE LStrip(_)
LStrip(s) == IF s # <<>> /\ Head(s) = " " THEN LStrip(Tail(s)) ELSE s

RECURSIVE RStrip(_)
RStrip(s) ==
  IF s # <<>> /\ s[Len(s)] = " " THEN RStrip(SubSeq(s, 1, Len(s) - 1)) ELSE s

Strip(s) == RStrip(LStrip(s))

ValueError == [ok |-> FALSE]

\* Python's float(text) on the decimal literals and "inf" (exponents,
\* underscores and "nan" are outside the alphabet of the form texts below):
\* surrounding blanks are dropped, one sign is allowed, then digits with at
\* most one point and at least one digit.  Anything else raises ValueError.
float(text) ==
  LET s    == Strip(text)
      neg  == s # <<>> /\ Head(s) = "-"
      body == IF s # <<>> /\ Head(s) \in {"-", "+"} THEN Tail(s) ELSE s
      dots == {i \in 1..Len(body) : body[i] = "."}
      p    == IF dots = {} THEN Len(body) + 1 ELSE CHOOSE i \in dots : TRUE
      ip   == SubSeq(body, 1, p - 1)
      fp   == SubSeq(body, p + 1, Len(body))
      mag  == DigitsValue(ip) * Pow10(Len(fp)) + DigitsValue(fp)
  IN  IF body = <<"i", "n", "f">>
        THEN [ok |-> TRUE, inf |-> TRUE, val |-> Num(IF neg THEN -1 ELSE 1, 0)]
      ELSE IF /\ Cardinality(dots) <= 1
              /\ \A i \in 1..Len(body) : body[i] \in Digits \cup {"."}
              /\ Len(ip) + Len(fp) >= 1
        THEN [ok |-> TRUE, inf |-> FALSE,
              val |-> Num(IF neg THEN -mag ELSE mag, Pow10(Len(fp)))]
      ELSE ValueError

\* Python's int(x) on a finite float: truncation towards zero.
int(v) ==
  IF v.num >= 0 THEN v.num \div v.den ELSE -((-v.num) \div v.den)

IsFinite(v) == v.den # 0
IsWhole(v) == v.den # 0 /\ v.num % v.den = 0
Gt(a, b) == a.num * b.den > b.num * a.den

----------------------------------------------------------------------------
(* The data set and the fitted model *)

CACHE_FILE == "assets/house_prices.csv"
abs_path == "<dirname(__file__)>/assets/house_prices.csv"

NoFrame == [path |-> "", rows |-> {}]

\* A row of the CSV, reduced to what the estimator reads: its SalePrice and
\* whether one of the six columns used for fitting is missing in it.
PriceLevels == {40000, 200000}
RowSpace == [SalePrice : PriceLevels, na : BOOLEAN]
Datasets == {d \in SUBSET RowSpace : Cardinality(d) <= MaxRows}

\* The five training columns, in the order handed to model.fit.
features == <<"GrLivArea", "YearBuilt", "OverallQual", "GarageCars", "TotalBsmtSF">>

\* df_house[features + ['SalePrice']].dropna()
dropna(rows) == {r \in rows : ~r.na}

Targets(rows) == {r.SalePrice : r \in dropna(rows)}

Min(S) == CHOOSE x \in S : \A y \in S : x <= y
Max(S) == CHOOSE x \in S : \A y \in S : x >= y

\* Importances are thousandths; a forest without any split reports zeros.
NoSplitImportances == <<0, 0, 0, 0, 0>>
OneHot(f) == [i \in 1..5 |-> IF i = f THEN 1000 ELSE 0]
Mixed == <<450, 50, 400, 50, 50>>

\* The split point tried on each column.
Thr == <<Num(1000, 1), Num(1990, 1), Num(7, 1), Num(1, 1), Num(500, 1)>>

\* Values a leaf average can take, cut to the range of the training targets.
PredLevels == PriceLevels \cup {50000}
Hull(Y) == {p \in PredLevels : Min(Y) <= p /\ p <= Max(Y)}

Leaf(v) ==
  [ok |-> TRUE, split |-> FALSE, feat |-> 1, left |-> v, right |-> v,
   feature_importances_ |-> NoSplitImportances]

Stump(f, l, r, w) ==
  [ok |-> TRUE, split |-> TRUE, feat |-> f, left |-> l, right |-> r,
   feature_importances_ |-> w]

FitError ==
  [ok |-> FALSE, split |-> FALSE, feat |-> 1, left |-> 0, right |-> 0,
   feature_importances_ |-> NoSplitImportances]

\* RandomForestRegressor(n_estimators=100, random_state=42).fit(X, y), by the
\* library's contract: every prediction is an average of training targets,
\* so it lies in their range; the importances are non-negative and
\* normalized to 1 unless no tree has a split (constant targets or constant
\* columns), in which case they are all zero; with no sample at all fit
\* raises ValueError.  The forest is a piecewise-constant function of the
\* input; one split stands for the partition.
Fits(rows) ==
  LET Y == Targets(rows)
  IN  IF Y = {} THEN {FitError}
      ELSE {Leaf(v) : v \in Hull(Y)}
           \cup (IF Cardinality(Y) < 2 THEN {}
                 ELSE {m \in UNION {{Stump(f, l, r, w) :
                                        l \in Hull(Y), r \in Hull(Y),
                                        w \in {OneHot(f), Mixed}} : f \in 1..5}
                         : m.left # m.right})

\* model.predict([x])[0]
predict(model, x) ==
  IF model.split /\ Gt(x[model.feat], Thr[model.feat])
    THEN model.right ELSE model.left

----------------------------------------------------------------------------
(* Module-level code: the data set is loaded on import *)

\* LoadDataset with the missing asset degraded to an empty data frame
\* instead of FileNotFoundError.
LoadDataset_EmptyFallback ==
  /\ pc = "boot"
  /\ IF fs.rel
       THEN /\ df_house' = [path |-> CACHE_FILE, rows |-> csv]
            /\ reads' = reads + 1
       ELSE IF fs.abs
         THEN /\ df_house' = [path |-> abs_path, rows |-> csv]
              /\ reads' = reads + 1
         ELSE /\ df_house' = NoFrame
              /\ reads' = reads
  /\ pc' = "ready"
  /\ UNCHANGED <<fs, csv, rf42, fits, page, det>>

\* Lines 27-43: the relative path is tried first, then the path next to
\* the script; with neither, FileNotFoundError ends the import.
LoadDataset ==
  /\ pc = "boot"
  /\ IF fs.rel
       THEN /\ df_house' = [path |-> CACHE_FILE, rows |-> csv]
            /\ reads' = reads + 1
            /\ pc' = "ready"
       ELSE IF fs.abs
         THEN /\ df_house' = [path |-> abs_path, rows |-> csv]
              /\ reads' = reads + 1
              /\ pc' = "ready"
         ELSE /\ pc' = "fatal"
              /\ UNCHANGED <<df_house, reads>>
  /\ UNCHANGED <<fs, csv, rf42, fits, page, det>>

----------------------------------------------------------------------------
(* main(page): the widgets of the prediction tab *)

\* What the user can type into the three text fields.
AreaTexts == {<<"1", "5", "0", "0">>, <<"a", "b", "c">>}
YearTexts == {<<"2", "0", "0", "0">>, <<"2", "0", "0", "0", ".", "5">>, <<"i", "n", "f">>}
BsmtTexts == {<<"8", "0", "0">>, <<>>}
\* Stops of the two sliders that the user moves to.
QualStops == {5, 10}
GarageStops == {0, 2}

\* result_text.value: the prompt, the error message or the formatted price.
Prompt == [kind |-> "prompt", price |-> 0]
ErrorMessage == [kind |-> "error", price |-> 0]
PriceText(pred_price) == [kind |-> "price", price |-> pred_price]

NoClick == [outcome |-> "none", input_val |-> <<>>]

\* A session before the UI runtime has called main for it.
NoPage ==
  [stage |-> "none", model |-> FitError,
   area_input |-> <<>>, year_input |-> <<>>, bsmt_input |-> <<>>,
   qual_slider |-> Num(0, 1), qual_text |-> 0,
   garage_slider |-> Num(0, 1), garage_text |-> 0,
   result_text |-> Prompt,
   calculation_text |-> [value |-> <<>>, visible |-> FALSE],
   last |-> NoClick]

\* Lines 344-365: the widgets as main constructs them.
Widgets(model) ==
  [stage |-> "ui", model |-> model,
   area_input |-> <<"1", "5", "0", "0">>,
   year_input |-> <<"2", "0", "0", "0">>,
   bsmt_input |-> <<"8", "0", "0">>,
   qual_slider |-> Num(5, 1), qual_text |-> 5,
   garage_slider |-> Num(2, 1), garage_text |-> 2,
   result_text |-> Prompt,
   calculation_text |-> [value |-> <<>>, visible |-> FALSE],
   last |-> NoClick]

\* Lines 333-340 and 344-365: one call of main by the UI runtime.  The model
\* is a local of the call: it is fitted here, on the complete rows of the
\* global df_house.  A fit that raises ends the call before any widget exists.
main(s) ==
  /\ pc = "ready"
  /\ page[s].stage = "none"
  /\ fits' = fits + 1
  /\ LET pred_data == dropna(df_house.rows)
         model == IF pred_data = {} THEN FitError ELSE rf42
     IN  page' = [page EXCEPT ![s] =
                    IF model.ok THEN Widgets(model)
                    ELSE [NoPage EXCEPT !.stage = "crashed"]]
  /\ UNCHANGED <<fs, csv, pc, df_house, reads, rf42, det>>

\* The user retypes a text field.
EditArea(s, T) ==
  /\ page[s].stage = "ui"
  /\ \E t \in T : page' = [page EXCEPT ![s].area_input = t]
  /\ UNCHANGED <<fs, csv, pc, df_house, reads, rf42, fits, det>>

EditYear(s, T) ==
  /\ page[s].stage = "ui"
  /\ \E t \in T : page' = [page EXCEPT ![s].year_input = t]
  /\ UNCHANGED <<fs, csv, pc, df_house, reads, rf42, fits, det>>

EditBsmt(s, T) ==
  /\ page[s].stage = "ui"
  /\ \E t \in T : page' = [page EXCEPT ![s].bsmt_input = t]
  /\ UNCHANGED <<fs, csv, pc, df_house, reads, rf42, fits, det>>

\* Lines 351-354: the slider moves and its caption follows.
on_qual_change(s, V) ==
  /\ page[s].stage = "ui"
  /\ \E v \in V :
       page' = [page EXCEPT ![s].qual_slider = Num(v, 1),
                            ![s].qual_text = int(Num(v, 1))]
  /\ UNCHANGED <<fs, csv, pc, df_house, reads, rf42, fits, det>>

\* Lines 358-361
on_garage_change(s, V) ==
  /\ page[s].stage = "ui"
  /\ \E v \in V :
       page' = [page EXCEPT ![s].garage_slider = Num(v, 1),
                            ![s].garage_text = int(Num(v, 1))]
  /\ UNCHANGED <<fs, csv, pc, df_house, reads, rf42, fits, det>>

----------------------------------------------------------------------------
(* on_predict_click *)

\* InputVal with quality and garage in each other's place.
InputVal_Swapped(area, year, qual, garage, bsmt) ==
  <<area, year, Num(garage, 1), Num(qual, 1), bsmt>>

\* Line 377: the row handed to model.predict.
InputVal(area, year, qual, garage, bsmt) ==
  <<area, year, Num(qual, 1), Num(garage, 1), bsmt>>

\* Line 389: the captions zipped with the importances.
ImportanceNames == <<"living area", "building age", "overall quality", "garage", "basement">>

\* Lines 388-391: one line per caption: the bar of int(imp * 20) blocks and
\* the percentage with one decimal (thousandths are tenths of a percent).
importance_desc(importances) ==
  [i \in 1..5 |->
     [name |-> ImportanceNames[i],
      bar |-> int(Num(importances[i] * 20, 1000)),
      pct |-> importances[i]]]

\* OnValueError that also empties the breakdown.
OnValueError_ClearsBreakdown(w) ==
  [w EXCEPT !.result_text = ErrorMessage,
            !.calculation_text = [value |-> <<>>, visible |-> FALSE],
            !.last = [outcome |-> "error", input_val |-> <<>>]]

\* OnValueError that forgets to hide the breakdown.
OnValueError_KeepsVisible(w) ==
  [w EXCEPT !.result_text = ErrorMessage,
            !.last = [outcome |-> "error", input_val |-> <<>>]]

\* Lines 405-409: the except branch.
OnValueError(w) ==
  [w EXCEPT !.result_text = ErrorMessage,
            !.calculation_text.visible = FALSE,
            !.last = [outcome |-> "error", input_val |-> <<>>]]

\* Lines 367-409.  The three float() calls come first; model.predict rejects
\* a row holding infinity with ValueError; nothing is written before that.
Clicked(w) ==
  LET area == float(w.area_input)
      year == float(w.year_input)
      bsmt == float(w.bsmt_input)
  IN  IF ~(area.ok /\ year.ok /\ bsmt.ok) THEN OnValueError(w)
      ELSE LET qual == int(w.qual_slider)
               garage == int(w.garage_slider)
               input_val == InputVal(area.val, year.val, qual, garage, bsmt.val)
           IN  IF \E i \in 1..5 : ~IsFinite(input_val[i]) THEN OnValueError(w)
               ELSE [w EXCEPT
                       !.result_text = PriceText(predict(w.model, input_val)),
                       !.calculation_text =
                          [value |-> importance_desc(w.model.feature_importances_),
                           visible |-> TRUE],
                       !.last = [outcome |-> "ok", input_val |-> input_val]]

on_predict_click(s) ==
  /\ page[s].stage = "ui"
  /\ page' = [page EXCEPT ![s] = Clicked(page[s])]
  /\ UNCHANGED <<fs, csv, pc, df_house, reads, rf42, fits, det>>

----------------------------------------------------------------------------
(* The deterministic weighted-sum strategy *)

FloorPrice == 50000
AreaWeight == 70
BasementWeight == 40
GarageWeight == 10000
QualityWeight == 15000
YearWeight == 500
BaseYear == 1950

\* WeightedSum without the clamp of the year term at zero.
WeightedSum_NoYearClamp(fv) ==
  fv[1] * AreaWeight + fv[5] * BasementWeight + fv[4] * GarageWeight
    + fv[3] * QualityWeight + (fv[2] - BaseYear) * YearWeight

\* Order of a FeatureVector: area, yearBuilt, overallQuality, garageCars,
\* basementArea.
WeightedSum(fv) ==
  fv[1] * AreaWeight + fv[5] * BasementWeight + fv[4] * GarageWeight
    + fv[3] * QualityWeight
    + (IF fv[2] - BaseYear > 0 THEN fv[2] - BaseYear ELSE 0) * YearWeight

\* The fixed importances, in hundredths, in FeatureVector order.
FixedImportances == <<40, 20, 25, 10, 5>>

\* estimate with the floor applied as a cap (min for max).
estimate_CappedAtFloor(fv) ==
  [price |-> IF WeightedSum(fv) > FloorPrice THEN FloorPrice ELSE WeightedSum(fv),
   importances |-> FixedImportances]

estimate(fv) ==
  [price |-> IF WeightedSum(fv) < FloorPrice THEN FloorPrice ELSE WeightedSum(fv),
   importances |-> FixedImportances]

\* Feature vectors the requests start from, and the amount one step raises
\* each feature by.
DetVectors == {-100, 0, 1500} \X {1900, 1949, 2000} \X {1, 5} \X {0, 2} \X {0, 800}
StepUnit == <<100, 1, 1, 1, 100>>

DetIdle ==
  [stage |-> "idle", fv |-> <<0, 0, 0, 0, 0>>, price |-> 0,
   importances |-> <<0, 0, 0, 0, 0>>,
   prev_fv |-> <<0, 0, 0, 0, 0>>, prev_price |-> 0, raised |-> 0, steps |-> 0]

\* One estimation request.
DetEstimate ==
  /\ det.stage = "request"
  /\ det' = [det EXCEPT !.stage = "done",
                        !.price = estimate(det.fv).price,
                        !.importances = estimate(det.fv).importances]
  /\ UNCHANGED <<fs, csv, pc, df_house, reads, rf42, fits, page>>

\* A second request that differs from the answered one in feature f only,
\* which is larger by k steps.
DetRaise(f) ==
  /\ det.stage = "done"
  /\ det.steps < MaxStep
  /\ \E k \in 1..MaxStep :
       LET fv == [det.fv EXCEPT ![f] = @ + k * StepUnit[f]]
       IN  det' = [stage |-> "done", fv |-> fv,
                   price |-> estimate(fv).price,
                   importances |-> estimate(fv).importances,
                   prev_fv |-> det.fv, prev_price |-> det.price,
                   raised |-> f, steps |-> det.steps + 1]
  /\ UNCHANGED <<fs, csv, pc, df_house, reads, rf42, fits, page>>

----------------------------------------------------------------------------
(* Specifications *)

Sessions == 1..MaxSessions

InitApp ==
  /\ fs \in [rel : BOOLEAN, abs : BOOLEAN]
  /\ csv \in Datasets
  /\ rf42 \in Fits(csv)
  /\ pc = "boot"
  /\ df_house = NoFrame
  /\ reads = 0
  /\ fits = 0
  /\ page = [s \in Sessions |-> NoPage]

Init ==
  /\ InitApp
  /\ det = DetIdle

\* One page: the widgets are locals of one call of main, so a session's
\* handlers reach no other session's widgets.
Next ==
  \/ LoadDataset
  \/ main(1)
  \/ EditArea(1, AreaTexts)
  \/ EditYear(1, YearTexts)
  \/ EditBsmt(1, BsmtTexts)
  \/ on_qual_change(1, QualStops)
  \/ on_garage_change(1, GarageStops)
  \/ on_predict_click(1)

Spec == Init /\ [][Next]_vars

\* The web runtime calls main once per session.
NextSessions ==
  \/ LoadDataset
  \/ \E s \in Sessions :
       \/ main(s)
       \/ EditArea(s, AreaTexts)
       \/ on_qual_change(s, QualStops)
       \/ on_predict_click(s)

SpecSessions == Init /\ [][NextSessions]_vars

InitDet ==
  /\ fs = [rel |-> TRUE, abs |-> TRUE]
  /\ csv = {}
  /\ rf42 = FitError
  /\ pc = "boot"
  /\ df_house = NoFrame
  /\ reads = 0
  /\ fits = 0
  /\ page = [s \in Sessions |-> NoPage]
  /\ det \in {[DetIdle EXCEPT !.stage = "request", !.fv = fv] : fv \in DetVectors}

NextDet ==
  \/ DetEstimate
  \/ \E f \in 1..5 : DetRaise(f)

SpecDet == InitDet /\ [][NextDet]_vars

----------------------------------------------------------------------------
(* Properties *)

Ui == {s \in Sessions : page[s].stage = "ui"}

\* A step in which session s's click handler ran and left a new record of
\* its outcome (a click that repeats the previous outcome changes nothing).
ClickStep(s) == page[s].stage = "ui" /\ page'[s].last # page[s].last

\* One of the three text fields holds a text float() rejects.
Unparsable(w) ==
  ~(float(w.area_input).ok /\ float(w.year_input).ok /\ float(w.bsmt_input).ok)

\* Python's int(text): blanks dropped, one sign, then digits only.
IsIntLiteral(text) ==
  LET s    == Strip(text)
      body == IF s # <<>> /\ Head(s) \in {"-", "+"} THEN Tail(s) ELSE s
  IN  body # <<>> /\ \A i \in 1..Len(body) : body[i] \in Digits

\* A FeatureVector inside the contract's ranges.
ValidFeatureVector(x) ==
  /\ x[1].num > 0
  /\ IsWhole(x[2])
  /\ x[3].num >= 1 /\ x[3].num <= 10
  /\ x[4].num >= 0 /\ x[4].num <= 4
  /\ x[5].num >= 0

RECURSIVE SumPct(_)
SumPct(lines) ==
  IF lines = <<>> THEN 0 ELSE Head(lines).pct + SumPct(Tail(lines))

\* C1: every price that a click on a valid FeatureVector writes to the
\* result text is at least the floor of 50000.
C1_PriceAtLeastFloor ==
  \A s \in Ui :
    (page[s].last.outcome = "ok" /\ ValidFeatureVector(page[s].last.input_val))
      => page[s].result_text.price >= FloorPrice

\* C2 (as stated): a click with an unparsable field leaves the result text
\* and the importance breakdown (content and visibility) as they were.
C2_FailedClickLeavesDisplay ==
  [][\A s \in Sessions :
       (ClickStep(s) /\ Unparsable(page[s]))
         => /\ page'[s].result_text = page[s].result_text
            /\ page'[s].calculation_text = page[s].calculation_text]_vars

\* C2 (amended): a click with an unparsable field produces no price: the
\* result text becomes the error message and the breakdown is hidden, while
\* the breakdown's content, the form inputs and the fitted model stay as
\* they were.
C2_FailedClickShowsErrorOnly ==
  [][\A s \in Sessions :
       (ClickStep(s) /\ Unparsable(page[s]))
         => /\ page'[s].result_text = ErrorMessage
            /\ page'[s].calculation_text.visible = FALSE
            /\ page'[s].calculation_text.value = page[s].calculation_text.value
            /\ page'[s].area_input = page[s].area_input
            /\ page'[s].year_input = page[s].year_input
            /\ page'[s].bsmt_input = page[s].bsmt_input
            /\ page'[s].qual_slider = page[s].qual_slider
            /\ page'[s].garage_slider = page[s].garage_slider
            /\ page'[s].model = page[s].model]_vars

\* A click on "abc" has failed after an earlier estimate: the error message
\* is shown over the retained, hidden breakdown.
C2_Witness ==
  \E s \in Ui :
    /\ page[s].area_input = <<"a", "b", "c">>
    /\ page[s].last.outcome = "error"
    /\ page[s].result_text = ErrorMessage
    /\ page[s].calculation_text.value # <<>>
    /\ ~page[s].calculation_text.visible

\* C3: a click whose area or basement text is no float, or whose year text
\* is no integer, ends in the error outcome and shows no price.
C3_IllTypedInputRejected ==
  [][\A s \in Sessions :
       (/\ ClickStep(s)
        /\ \/ ~float(page[s].area_input).ok
           \/ ~float(page[s].bsmt_input).ok
           \/ ~IsIntLiteral(page[s].year_input))
         => /\ page'[s].last.outcome = "error"
            /\ page'[s].result_text.kind # "price"]_vars

\* C4: the breakdown is visible exactly when the most recent click produced
\* an estimate; it is hidden before the first click and after a failed one,
\* a price is never shown without it and an error never with it.
C4_BreakdownFollowsLastClick ==
  \A s \in Ui :
    /\ page[s].calculation_text.visible <=> page[s].last.outcome = "ok"
    /\ page[s].result_text.kind = "price" <=> page[s].calculation_text.visible
    /\ page[s].result_text.kind = "error" <=> page[s].last.outcome = "error"
    /\ page[s].last.outcome = "none"
         => page[s].result_text = Prompt /\ page[s].calculation_text.value = <<>>

\* A failed click has hidden a breakdown that an earlier click had shown,
\* and the form has since been corrected without a new click.
C4_Witness ==
  \E s \in Ui :
    /\ page[s].last.outcome = "error"
    /\ page[s].calculation_text.value # <<>>
    /\ ~page[s].calculation_text.visible
    /\ ~Unparsable(page[s])

\* C7: the importances shown with an estimate are non-negative and sum to
\* 1.0 (1000 thousandths).
C7_ImportancesNormalized ==
  \A s \in Ui :
    page[s].calculation_text.visible
      => /\ \A i \in 1..5 : page[s].calculation_text.value[i].pct >= 0
         /\ SumPct(page[s].calculation_text.value) = 1000

\* C8: the model is fitted once per process, however many sessions call
\* main, and every session predicts with that one fitted model.
C8_FittedOnce ==
  /\ fits <= 1
  /\ \A s \in Ui : page[s].model = rf42
  /\ pc = "ready" => df_house.rows = csv

FieldValue(w, column) ==
  CASE column = "GrLivArea" -> float(w.area_input).val
    [] column = "YearBuilt" -> float(w.year_input).val
    [] column = "OverallQual" -> Num(int(w.qual_slider), 1)
    [] column = "GarageCars" -> Num(int(w.garage_slider), 1)
    [] column = "TotalBsmtSF" -> float(w.bsmt_input).val

\* The training column an importance caption speaks of.
CaptionColumn(name) ==
  CASE name = "living area" -> "GrLivArea"
    [] name = "building age" -> "YearBuilt"
    [] name = "overall quality" -> "OverallQual"
    [] name = "garage" -> "GarageCars"
    [] name = "basement" -> "TotalBsmtSF"

\* C10: the row given to model.predict holds, at the position of every
\* training column, the value of the widget for that column, and the i-th
\* importance is shown under the caption of the i-th training column.
C10_PositionsConsistent ==
  [][\A s \in Sessions :
       (ClickStep(s) /\ page'[s].last.outcome = "ok")
         => \A i \in 1..5 :
              /\ page'[s].last.input_val[i] = FieldValue(page[s], features[i])
              /\ CaptionColumn(page'[s].calculation_text.value[i].name) = features[i]
              /\ page'[s].calculation_text.value[i].pct
                   = page[s].model.feature_importances_[i]]_vars

\* An estimate was made with quality and garage values that differ, by a
\* model whose importances differ between columns.
C10_Witness ==
  \E s \in Ui :
    /\ page[s].last.outcome = "ok"
    /\ page[s].last.input_val[3] # page[s].last.input_val[4]
    /\ page[s].model.feature_importances_ = Mixed
    /\ page[s].calculation_text.visible

\* C5 (as stated): raising one feature strictly raises the price.
C5_StrictlyMonotone ==
  det.raised # 0 => det.price > det.prev_price

\* C5 (amended): raising one feature never lowers the price, and strictly
\* raises it whenever the weighted sum after the increase is above the floor
\* and, when the feature is yearBuilt, the raised year is above 1950.
C5_Monotone ==
  det.raised # 0
    => /\ det.price >= det.prev_price
       /\ (/\ det.fv[1] * 70 + det.fv[5] * 40 + det.fv[4] * 10000
                + det.fv[3] * 15000
                + (IF det.fv[2] > 1950 THEN det.fv[2] - 1950 ELSE 0) * 500 > 50000
           /\ det.raised = 2 => det.fv[2] > 1950)
            => det.price > det.prev_price

\* The year was raised below 1950 on a vector priced above the floor: the
\* price stayed.
C5_Witness ==
  /\ det.raised = 2
  /\ det.fv[2] < 1950
  /\ det.prev_price > 50000
  /\ det.price = det.prev_price

\* C6: the price is max(50000, area*70 + basementArea*40 + garageCars*10000
\* + overallQuality*15000 + max(yearBuilt-1950, 0)*500); the worked example
\* gives 257000; a negative area is answered, with at least 50000.
C6_WeightedSumFloored ==
  det.stage = "done"
    => LET raw == det.fv[1] * 70 + det.fv[5] * 40 + det.fv[4] * 10000
                    + det.fv[3] * 15000
                    + (IF det.fv[2] >= 1950 THEN det.fv[2] - 1950 ELSE 0) * 500
       IN  /\ det.price = IF raw >= 50000 THEN raw ELSE 50000
           /\ det.fv = <<1500, 2000, 5, 2, 800>> => det.price = 257000
           /\ det.fv[1] < 0 => det.price >= 50000

\* The worked example has been estimated.
C6_Witness ==
  /\ det.stage = "done"
  /\ det.fv = <<1500, 2000, 5, 2, 800>>
  /\ det.price = 257000

====
